---- MODULE Spec2Model ----
(***************************************************************************)
(* Model of tensorflow/compiler/mlir/tensorflow/transforms/legalize_hlo.cc *)
(* : the LegalizeHloToTf function pass, its two hand-written rewrites      *)
(* (ConvertSliceOp, ConvertDotOp) and the partial dialect conversion that  *)
(* runOnFunction drives over one function.                                 *)
(*                                                                         *)
(* A function is a sequence of operations followed by a std.return.  A     *)
(* Value carries its type (shape and element kind) and names its definer:  *)
(* an entry argument or the operation with a given id.                     *)
(***************************************************************************)
EXTENDS Integers, Sequences, FiniteSets, TLC

\* ------------------------------------------------------------------ bounds
MaxDim == 2      \* dimension sizes of the input tensors are 1..MaxDim
MaxStride == 2   \* slice strides of the input are 1..MaxStride
MaxOps == 2      \* operations in an input function body (before the return)
MaxRuns == 2     \* how many times the pass is run over the same function

Dims == 1..MaxDim

\* ------------------------------------------------------------------ IR model
\* Shapes of rank r over Dims.
ShapesOfRank(r) == [1..r -> Dims]
InputShapes == ShapesOfRank(0) \cup ShapesOfRank(1) \cup ShapesOfRank(2)

NoAttrs == [start |-> <<>>, limit |-> <<>>, strides |-> <<>>, value |-> <<>>,
            transpose_a |-> FALSE, transpose_b |-> FALSE]

\* A Value: an entry argument (id 0, one per type) or the result of operation id.
ArgValue(shape) == [def |-> "arg", id |-> 0, shape |-> shape, elem |-> "f32"]
ResultOf(op) == [def |-> "op", id |-> op.id, shape |-> op.shape, elem |-> op.elem]

MkOp(id, kind, operands, shape, elem, attrs) ==
    [id |-> id, kind |-> kind, operands |-> operands, shape |-> shape,
     elem |-> elem, attrs |-> attrs]

Rank(v) == Len(v.shape)

\* The dialect of an operation kind: the prefix before the first '.'.
Dialect(kind) ==
    CASE kind \in {"xla_hlo.slice", "xla_hlo.dot", "xla_hlo.reshape"} -> "xla_hlo"
      [] kind \in {"tf.Const", "tf.Slice", "tf.MatMul", "tf.Reshape", "tf.Identity"} -> "tf"
      [] OTHER -> "std"

\* ------------------------------------------------------------------ ConvertSliceOp
NoValue == [def |-> "none", id |-> 0, shape |-> <<>>, elem |-> "none"]

\* DenseIntElementsAttr::isSplat: every element is the one repeated value.
isSplat(attr) == Len(attr) > 0 /\ \A i \in 1..Len(attr) : attr[i] = attr[1]
getSplatValue(attr) == attr[1]

\* Variant: the stride check without isSplat, reading the first stride only.
SliceStridesAreUnit_NoSplatCheck(strides) == getSplatValue(strides) = 1

\* Lines 51-53: the rule applies only to a stride attribute that is a splat of 1.
SliceStridesAreUnit(strides) == isSplat(strides) /\ getSplatValue(strides) = 1

Min(a, b) == IF a <= b THEN a ELSE b

\* Variant: the size computed as the limit, the start not subtracted.
SizeValues_LimitOnly(start_indices, limit_indices) ==
    [i \in 1..Min(Len(start_indices), Len(limit_indices)) |-> limit_indices[i]]

\* Lines 58-63: size_values[i] = limit[i] - start[i], zipped over both attributes.
SizeValues(start_indices, limit_indices) ==
    [i \in 1..Min(Len(start_indices), Len(limit_indices)) |->
        limit_indices[i] - start_indices[i]]

\* Variant: the new tf.Slice reads the result of slice_op, not its operand.
SliceNewOps_UsesOwnResult(slice_op, nid) ==
    LET start == MkOp(nid, "tf.Const", <<>>, <<Len(slice_op.attrs.start)>>, "i64",
                      [NoAttrs EXCEPT !.value = slice_op.attrs.start])
        size == MkOp(nid + 1, "tf.Const", <<>>, <<Len(slice_op.attrs.start)>>, "i64",
                     [NoAttrs EXCEPT !.value =
                         [i \in 1..Len(slice_op.attrs.start) |->
                             slice_op.attrs.limit[i] - slice_op.attrs.start[i]]])
        new == MkOp(nid + 2, "tf.Slice",
                    <<ResultOf(slice_op), ResultOf(start), ResultOf(size)>>,
                    slice_op.shape, slice_op.elem, NoAttrs)
    IN <<start, size, new>>

\* Lines 68-72: the two constants and the tf.Slice, in creation order.
SliceNewOps(slice_op, nid) ==
    LET start_indices == slice_op.attrs.start
        size_values == SizeValues(start_indices, slice_op.attrs.limit)
        start == MkOp(nid, "tf.Const", <<>>, <<Len(start_indices)>>, "i64",
                      [NoAttrs EXCEPT !.value = start_indices])
        size == MkOp(nid + 1, "tf.Const", <<>>, <<Len(size_values)>>, "i64",
                     [NoAttrs EXCEPT !.value = size_values])
        new == MkOp(nid + 2, "tf.Slice",
                    <<slice_op.operands[1], ResultOf(start), ResultOf(size)>>,
                    slice_op.shape, slice_op.elem, NoAttrs)
    IN <<start, size, new>>

\* ConvertSliceOp::matchAndRewrite.  The result names whether the rule applied,
\* the operations it created (in order), where they were inserted and the Value
\* that replaces the result of slice_op.
ConvertSliceOp(slice_op, nid) ==
    IF ~SliceStridesAreUnit(slice_op.attrs.strides)
    THEN [applied |-> FALSE, newOps |-> <<>>, after |-> FALSE, repl |-> NoValue]
    ELSE LET created == SliceNewOps(slice_op, nid)
         IN [applied |-> TRUE, newOps |-> created, after |-> TRUE,
             repl |-> ResultOf(created[3])]

\* ------------------------------------------------------------------ ConvertDotOp
\* Lines 118-130: a shape of rank < 2 gets leading 1s up to rank 2.
RECURSIVE PrependOnes(_, _)
PrependOnes(shape, n) == IF n <= 0 THEN shape ELSE PrependOnes(<<1>> \o shape, n - 1)

normalize_rank(shape) ==
    IF Len(shape) >= 2 THEN shape ELSE PrependOnes(shape, 2 - Len(shape))

\* Lines 134-144: the operations created for one operand (none or one
\* xla_hlo.reshape) and the Value fed to the matmul.
reshape_to_2d(input, nid) ==
    IF Rank(input) >= 2
    THEN [ops |-> <<>>, value |-> input]
    ELSE LET reshape == MkOp(nid, "xla_hlo.reshape", <<input>>,
                             normalize_rank(input.shape), input.elem, NoAttrs)
         IN [ops |-> <<reshape>>, value |-> ResultOf(reshape)]

\* Variant: b transposed for every rhs that gets reshaped (rank 0 as well as 1).
TransposeB_RankBelowTwo(rhs) == Rank(rhs) < 2

\* Line 152: b is transposed iff the rhs was 1-d before the reshape.
TransposeB(rhs) == Rank(rhs) = 1

\* Variant: the final reshape typed with the normalized 2-d type of the matmul.
DotTail_KeepsNormalizedType(dot_op, a, b, nid) ==
    LET matmul == MkOp(nid, "tf.MatMul", <<a, b>>, normalize_rank(dot_op.shape),
                       dot_op.elem,
                       [NoAttrs EXCEPT !.transpose_b = Rank(dot_op.operands[2]) = 1])
        reshape == MkOp(nid + 1, "xla_hlo.reshape", <<ResultOf(matmul)>>,
                        normalize_rank(dot_op.shape), dot_op.elem, NoAttrs)
    IN <<matmul, reshape>>

\* Lines 153-158: the matmul and the reshape back to the declared output type.
DotTail(dot_op, a, b, nid) ==
    LET matmul == MkOp(nid, "tf.MatMul", <<a, b>>, normalize_rank(dot_op.shape),
                       dot_op.elem,
                       [NoAttrs EXCEPT !.transpose_a = FALSE,
                                       !.transpose_b = TransposeB(dot_op.operands[2])])
        reshape == MkOp(nid + 1, "xla_hlo.reshape", <<ResultOf(matmul)>>,
                        dot_op.shape, dot_op.elem, NoAttrs)
    IN <<matmul, reshape>>

\* ConvertDotOp(rewriter, old_op): creates its operations at the rewriter's
\* insertion point (before old_op) and returns the replacement Value.
ConvertDotOp(dot_op, nid) ==
    LET a == reshape_to_2d(dot_op.operands[1], nid)
        b == reshape_to_2d(dot_op.operands[2], nid + Len(a.ops))
        tail == DotTail(dot_op, a.value, b.value, nid + Len(a.ops) + Len(b.ops))
    IN [applied |-> TRUE, newOps |-> a.ops \o b.ops \o tail, after |-> FALSE,
        repl |-> ResultOf(tail[2])]

\* ShapeToConst: the shape of a value as a std.constant of type tensor<rank x i64>.
ShapeToConst(value, nid) ==
    MkOp(nid, "std.constant", <<>>, <<Len(value.shape)>>, "i64",
         [NoAttrs EXCEPT !.value = value.shape])

\* The generated pattern for xla_hlo.reshape (generated_legalize_hlo.inc):
\* tf.Reshape of the operand to the shape constant of the old result.
ConvertReshapeOp(reshape_op, nid) ==
    LET shape == ShapeToConst(ResultOf(reshape_op), nid)
        new == MkOp(nid + 1, "tf.Reshape", <<reshape_op.operands[1], ResultOf(shape)>>,
                    reshape_op.shape, reshape_op.elem, NoAttrs)
    IN [applied |-> TRUE, newOps |-> <<shape, new>>, after |-> FALSE,
        repl |-> ResultOf(new)]

\* ------------------------------------------------------------------ input functions
CeilDiv(a, b) == (a + b - 1) \div b

SliceOp(id, v, start, limit, strides) ==
    MkOp(id, "xla_hlo.slice", <<v>>,
         [i \in 1..Rank(v) |-> CeilDiv(limit[i] - start[i], strides[i])], v.elem,
         [NoAttrs EXCEPT !.start = start, !.limit = limit, !.strides = strides])

\* xla_hlo.dot contracts the last axis of lhs with the first axis of rhs.
DotCompatible(l, r) ==
    \/ Len(l) = 0 /\ Len(r) = 0
    \/ Len(l) >= 1 /\ Len(r) >= 1 /\ l[Len(l)] = r[1]

DotShape(l, r) ==
    (IF Len(l) = 2 THEN <<l[1]>> ELSE <<>>) \o (IF Len(r) = 2 THEN <<r[2]>> ELSE <<>>)

DotOp(id, l, r) ==
    MkOp(id, "xla_hlo.dot", <<l, r>>, DotShape(l.shape, r.shape), l.elem, NoAttrs)

IdentityOp(id, v) == MkOp(id, "tf.Identity", <<v>>, v.shape, v.elem, NoAttrs)

ReturnOp(id, v) == MkOp(id, "std.return", <<v>>, <<>>, "none", NoAttrs)

Args == {ArgValue(s) : s \in InputShapes}

\* Every slice of v: 0 <= start < limit <= dim and a stride per axis.
SliceParams(v) ==
    {p \in [st : [1..Rank(v) -> 0..MaxDim], li : [1..Rank(v) -> 1..MaxDim],
            sd : [1..Rank(v) -> 1..MaxStride]] :
        \A i \in 1..Rank(v) : p.st[i] < p.li[i] /\ p.li[i] <= v.shape[i]}

SlicesOf(id, v) == {SliceOp(id, v, p.st, p.li, p.sd) : p \in SliceParams(v)}

\* The slices of the whole of v, with unit strides or with stride MaxStride on axis 1.
WholeSlicesOf(id, v) ==
    {SliceOp(id, v, [i \in 1..Rank(v) |-> 0], v.shape, sd) :
        sd \in {[i \in 1..Rank(v) |-> 1],
                [i \in 1..Rank(v) |-> IF i = 1 THEN MaxStride ELSE 1]}}

DotsWithLhs(id, v) ==
    {DotOp(id, v, r) : r \in {a \in Args : DotCompatible(v.shape, a.shape)}}

\* The first operation of a body: everything over the entry arguments.
FirstOpsFull(id) ==
    UNION {(IF Rank(v) >= 1 THEN SlicesOf(id, v) ELSE {}) \cup DotsWithLhs(id, v)
           \cup {IdentityOp(id, v)} : v \in Args}

FirstOpsCompact(id) ==
    UNION {(IF Rank(v) >= 1 THEN WholeSlicesOf(id, v) ELSE {}) \cup DotsWithLhs(id, v)
           \cup {IdentityOp(id, v)} : v \in Args}

\* An operation that consumes v, the result of the operation before it.
Followers(id, v) ==
    (IF Rank(v) >= 1 THEN WholeSlicesOf(id, v) ELSE {}) \cup DotsWithLhs(id, v)
    \cup {IdentityOp(id, v)}

RECURSIVE ChainsOfLen(_)
ChainsOfLen(n) ==
    IF n = 1 THEN {<<o>> : o \in FirstOpsCompact(1)}
    ELSE UNION {{c \o <<f>> : f \in Followers(n, ResultOf(c[n - 1]))} :
                c \in ChainsOfLen(n - 1)}

Bodies == {<<o>> : o \in FirstOpsFull(1)} \cup UNION {ChainsOfLen(n) : n \in 2..MaxOps}

InputFunctions ==
    {b \o <<ReturnOp(Len(b) + 1, ResultOf(b[Len(b)]))>> : b \in Bodies}

\* ------------------------------------------------------------------ conversion target
\* Variant: std.constant left out of addLegalOp.
IsLegal_NoConstantOp(kind) == Dialect(kind) = "tf" \/ kind = "std.call"

\* Lines 173-175: the TensorFlow dialect, std.call and std.constant are legal.
IsLegal(kind) == Dialect(kind) = "tf" \/ kind \in {"std.call", "std.constant"}

\* Variant: the target also marks the xla_hlo dialect illegal.
IsExplicitlyIllegal_HloDialect(kind) == Dialect(kind) = "xla_hlo"

\* Lines 173-175 mark no operation and no dialect illegal.
IsExplicitlyIllegal(kind) == FALSE

\* Lines 170-171: the kinds a registered pattern is rooted at.
HasPattern(kind) == kind \in {"xla_hlo.dot", "xla_hlo.reshape", "xla_hlo.slice"}

\* matchAndRewrite of the pattern registered for the kind of op.
MatchAndRewrite(op, nid) ==
    CASE op.kind = "xla_hlo.slice" -> ConvertSliceOp(op, nid)
      [] op.kind = "xla_hlo.dot" -> ConvertDotOp(op, nid)
      [] op.kind = "xla_hlo.reshape" -> ConvertReshapeOp(op, nid)

\* ------------------------------------------------------------------ state
VARIABLES
    ops,          \* the function body, in program order, the terminator last
    pc,           \* "idle", "convert", "report", "done"
    worklist,     \* ids of the operations still to legalize, next first
    pending,      \* how many ids at the front of worklist a pattern generated
    replaced,     \* the rewriter's replacements: {[id, by]}
    created,      \* the operations patterns created in this run: {[id, kind]}
    examined,     \* ids legalize() was called on in this run
    unconverted,  \* ids that failed to legalize and were left in place
    saved,        \* the state before the pattern applied to the root operation
    entry,        \* the function body when the run started
    nextId,       \* the next fresh operation id
    failed,       \* the result of applyPartialConversion
    passFailed,   \* signalPassFailure() was called
    runs,         \* runs of the pass started so far
    ruleCalls,    \* matchAndRewrite invocations in this run
    steps,        \* steps of the conversion taken in this run
    last          \* the most recent matchAndRewrite: its root, result and the body before

vars == <<ops, pc, worklist, pending, replaced, created, examined, unconverted, saved,
          entry, nextId, failed, passFailed, runs, ruleCalls, steps, last>>

NoSnapshot == [root |-> 0, ops |-> <<>>, replaced |-> {}]
NoRewrite == [root |-> 0, applied |-> FALSE, newOps |-> <<>>, repl |-> NoValue,
              before |-> <<>>, op |-> ReturnOp(0, NoValue)]

IndexOf(body, id) == CHOOSE i \in 1..Len(body) : body[i].id = id
OpById(body, id) == body[IndexOf(body, id)]

SubSeqFrom(s, i) == SubSeq(s, i, Len(s))

\* The rewriter inserts newOps before (or after) the operation anchor.
InsertOps(body, anchor, newOps, after) ==
    LET k == IF after THEN IndexOf(body, anchor) ELSE IndexOf(body, anchor) - 1
    IN SubSeq(body, 1, k) \o newOps \o SubSeqFrom(body, k + 1)

IsReplaced(id) == \E r \in replaced : r.id = id

Init ==
    /\ ops \in InputFunctions
    /\ pc = "idle"
    /\ worklist = <<>>
    /\ pending = 0
    /\ replaced = {}
    /\ created = {}
    /\ examined = {}
    /\ unconverted = {}
    /\ saved = NoSnapshot
    /\ entry = <<>>
    /\ nextId = Len(ops) + 1
    /\ failed = FALSE
    /\ passFailed = FALSE
    /\ runs = 0
    /\ ruleCalls = 0
    /\ steps = 0
    /\ last = NoRewrite

\* ------------------------------------------------------------------ the pass
\* runOnFunction hands the function, the target and the patterns to
\* applyPartialConversion (line 176), which is MLIR library code.  It is modelled
\* by the contract of a partial conversion: every operation of the function is
\* legalized in program order; a legal operation is kept; an illegal one is
\* rewritten by the first pattern rooted at its kind that applies, and the
\* operations the pattern created are legalized in turn before the next
\* operation; an operation that cannot be legalized is left in place, and fails
\* the conversion only if the target marks it illegal; the replacements take
\* effect when the conversion commits.  Folding of operations is not modelled.
\* runOnFunction up to the call of applyPartialConversion (lines 165-176): the
\* conversion set is every operation of the function, in program order.
RunOnFunction ==
    /\ pc \in {"idle", "done"}
    /\ runs < MaxRuns
    /\ pc' = "convert"
    /\ runs' = runs + 1
    /\ worklist' = [i \in 1..Len(ops) |-> ops[i].id]
    /\ entry' = ops
    /\ pending' = 0
    /\ replaced' = {}
    /\ created' = {}
    /\ examined' = {}
    /\ unconverted' = {}
    /\ saved' = NoSnapshot
    /\ failed' = FALSE
    /\ passFailed' = FALSE
    /\ ruleCalls' = 0
    /\ steps' = 0
    /\ last' = NoRewrite
    /\ UNCHANGED <<ops, nextId>>

PendingAfterPop == IF pending > 0 THEN pending - 1 ELSE 0

\* legalize(op) of an operation that is legal, or that a pattern already replaced:
\* nothing to do.
LegalizeLegal ==
    /\ pc = "convert"
    /\ worklist # <<>>
    /\ LET h == Head(worklist)
       IN /\ IsLegal(OpById(ops, h).kind) \/ IsReplaced(h)
          /\ examined' = examined \cup {h}
    /\ worklist' = Tail(worklist)
    /\ pending' = PendingAfterPop
    /\ saved' = IF PendingAfterPop = 0 THEN NoSnapshot ELSE saved
    /\ steps' = steps + 1
    /\ UNCHANGED <<ops, pc, replaced, created, unconverted, entry, nextId, failed,
                   passFailed, runs, ruleCalls, last>>

\* legalize(op) failed for the operation h.  A failure of an operation that a
\* pattern generated fails that pattern, whose rewrite is rolled back up to the
\* root it was applied to.  A partial conversion leaves the root in place unless
\* the target marks it illegal; then the conversion fails and discards all rewrites.
FailToLegalize(h) ==
    LET nested == pending > 0
        root == IF nested THEN saved.root ELSE h
        baseOps == IF nested THEN saved.ops ELSE ops
    IN /\ saved' = NoSnapshot
       /\ pending' = 0
       /\ IF IsExplicitlyIllegal(OpById(baseOps, root).kind)
          THEN /\ failed' = TRUE
               /\ ops' = entry
               /\ replaced' = {}
               /\ worklist' = <<>>
               /\ pc' = "report"
               /\ unconverted' = unconverted
          ELSE /\ failed' = failed
               /\ ops' = baseOps
               /\ replaced' = IF nested THEN saved.replaced ELSE replaced
               /\ worklist' = IF nested THEN SubSeqFrom(worklist, pending + 1)
                              ELSE Tail(worklist)
               /\ pc' = pc
               /\ unconverted' = unconverted \cup {root}

\* legalize(op) of an illegal operation whose kind has a registered pattern.
LegalizeWithPattern(kind) ==
    /\ pc = "convert"
    /\ worklist # <<>>
    /\ LET h == Head(worklist)
           op == OpById(ops, h)
           res == MatchAndRewrite(op, nextId)
           n == Len(res.newOps)
       IN /\ op.kind = kind
          /\ ~IsLegal(kind)
          /\ ~IsReplaced(h)
          /\ examined' = examined \cup {h}
          /\ ruleCalls' = ruleCalls + 1
          /\ last' = [root |-> h, op |-> op, applied |-> res.applied,
                      newOps |-> res.newOps, repl |-> res.repl, before |-> ops]
          /\ IF res.applied
             THEN /\ ops' = InsertOps(ops, h, res.newOps, res.after)
                  /\ replaced' = replaced \cup {[id |-> h, by |-> res.repl]}
                  /\ created' = created \cup {[id |-> res.newOps[i].id, kind |-> res.newOps[i].kind] :
                                                i \in 1..n}
                  /\ nextId' = nextId + n
                  /\ worklist' = [i \in 1..n |-> res.newOps[i].id] \o Tail(worklist)
                  /\ pending' = PendingAfterPop + n
                  /\ saved' = IF pending = 0
                              THEN [root |-> h, ops |-> ops, replaced |-> replaced]
                              ELSE saved
                  /\ UNCHANGED <<pc, unconverted, failed>>
             ELSE /\ FailToLegalize(h)
                  /\ UNCHANGED <<created, nextId>>
    /\ steps' = steps + 1
    /\ UNCHANGED <<entry, passFailed, runs>>

\* legalize(op) of an illegal operation no pattern is rooted at.
LegalizeNoPattern ==
    /\ pc = "convert"
    /\ worklist # <<>>
    /\ LET h == Head(worklist)
       IN /\ ~IsLegal(OpById(ops, h).kind)
          /\ ~HasPattern(OpById(ops, h).kind)
          /\ ~IsReplaced(h)
          /\ examined' = examined \cup {h}
          /\ FailToLegalize(h)
    /\ steps' = steps + 1
    /\ UNCHANGED <<created, entry, nextId, passFailed, runs, ruleCalls, last>>

\* The Value that finally stands for v once every replacement is applied.
RECURSIVE Resolve(_, _)
Resolve(v, repl) ==
    IF v.def = "op" /\ \E r \in repl : r.id = v.id
    THEN Resolve((CHOOSE r \in repl : r.id = v.id).by, repl)
    ELSE v

\* applyRewrites at the end of a conversion: every use of a replaced result is
\* rewired to its replacement and the replaced operations are erased.
ReplaceAllUses(body, repl) ==
    LET live == SelectSeq(body, LAMBDA o : ~\E r \in repl : r.id = o.id)
    IN [i \in 1..Len(live) |->
           [live[i] EXCEPT !.operands =
               [j \in 1..Len(live[i].operands) |-> Resolve(live[i].operands[j], repl)]]]

ApplyRewrites ==
    /\ pc = "convert"
    /\ worklist = <<>>
    /\ ops' = ReplaceAllUses(ops, replaced)
    /\ pc' = "report"
    /\ steps' = steps + 1
    /\ UNCHANGED <<worklist, pending, replaced, created, examined, unconverted, saved,
                   entry, nextId, failed, passFailed, runs, ruleCalls, last>>

\* Variant: the test of the conversion result inverted.
Report_Inverted ==
    /\ pc = "report"
    /\ passFailed' = ~failed
    /\ pc' = "done"
    /\ steps' = steps + 1
    /\ UNCHANGED <<ops, worklist, pending, replaced, created, examined, unconverted,
                   saved, entry, nextId, failed, runs, ruleCalls, last>>

\* Lines 176-179: a failed conversion emits the error and signals pass failure.
Report ==
    /\ pc = "report"
    /\ passFailed' = failed
    /\ pc' = "done"
    /\ steps' = steps + 1
    /\ UNCHANGED <<ops, worklist, pending, replaced, created, examined, unconverted,
                   saved, entry, nextId, failed, runs, ruleCalls, last>>

Next ==
    \/ RunOnFunction
    \/ LegalizeLegal
    \/ LegalizeWithPattern("xla_hlo.slice")
    \/ LegalizeWithPattern("xla_hlo.dot")
    \/ LegalizeWithPattern("xla_hlo.reshape")
    \/ LegalizeNoPattern
    \/ ApplyRewrites
    \/ Report

Spec == Init /\ [][Next]_vars

\* ------------------------------------------------------------------ claims
LastIs(kind) == last.root # 0 /\ last.op.kind = kind

AllStridesOne(op) == \A i \in 1..Len(op.attrs.strides) : op.attrs.strides[i] = 1

Terminator(op) == op.kind = "std.return"

C2_UnitStrideSliceRewritten ==
    (LastIs("xla_hlo.slice") /\ AllStridesOne(last.op)) =>
        /\ last.applied
        /\ Len(last.newOps) = 3
        /\ LET start == last.newOps[1]
               size == last.newOps[2]
               new == last.newOps[3]
           IN /\ start.kind = "tf.Const" /\ start.attrs.value = last.op.attrs.start
              /\ size.kind = "tf.Const"
              /\ Len(size.attrs.value) = Len(last.op.operands[1].shape)
              /\ \A i \in 1..Len(size.attrs.value) :
                    size.attrs.value[i] = last.op.attrs.limit[i] - last.op.attrs.start[i]
              /\ new.kind = "tf.Slice"
              /\ new.operands = <<last.op.operands[1], ResultOf(start), ResultOf(size)>>
              /\ last.repl = ResultOf(new)
              /\ [id |-> last.root, by |-> ResultOf(new)] \in replaced

C2_Witness ==
    /\ LastIs("xla_hlo.slice")
    /\ last.applied
    /\ last.op.attrs.start = <<0, 1>>
    /\ last.op.attrs.limit = <<1, 2>>
    /\ last.op.operands[1].shape = <<2, 2>>
    /\ \E i \in 1..Len(ops) : ops[i].kind = "tf.Slice"

\* C3: legalizing a slice with some stride other than 1 invokes the rule, which
\* does not apply, creates no operation and declares no replacement; the function
\* body and the replacements are left as they were.
HeadIsStridedSlice ==
    /\ pc = "convert"
    /\ worklist # <<>>
    /\ OpById(ops, Head(worklist)).kind = "xla_hlo.slice"
    /\ ~AllStridesOne(OpById(ops, Head(worklist)))
    /\ ~IsReplaced(Head(worklist))

C3_StridedSliceUntouched ==
    [][HeadIsStridedSlice =>
        /\ ~last'.applied
        /\ last'.newOps = <<>>
        /\ last'.repl = NoValue
        /\ ops' = ops
        /\ replaced' = replaced
        /\ created' = created
        /\ nextId' = nextId]_vars

C3_Witness ==
    /\ LastIs("xla_hlo.slice")
    /\ last.op.attrs.strides = <<1, 2>>
    /\ ~last.applied
    /\ ruleCalls > 0
    /\ ops = last.before

\* The tf.MatMul a dot rewrite created, and the reshapes before and after it.
MatMulIndex == CHOOSE i \in 1..Len(last.newOps) : last.newOps[i].kind = "tf.MatMul"
MatMulOfLast == last.newOps[MatMulIndex]

\* What the claim expects of a matmul operand: an input of rank < 2 is reshaped
\* to [1, n] (or [1, 1] for a scalar) by an operation the rule created before
\* the matmul; an input of rank >= 2 is passed as it is.
ExpectedOperand(input, fed) ==
    IF Len(input.shape) >= 2 THEN fed = input
    ELSE /\ fed.shape = (IF Len(input.shape) = 1 THEN <<1, input.shape[1]>> ELSE <<1, 1>>)
         /\ \E i \in 1..(MatMulIndex - 1) :
               /\ last.newOps[i].kind = "xla_hlo.reshape"
               /\ last.newOps[i].operands = <<input>>
               /\ fed = ResultOf(last.newOps[i])

\* C4: the matmul of a dot rewrite is fed the rank-normalized operands, with
\* transpose_b set exactly when the rhs had rank 1 and transpose_a never set; two
\* vectors give a matmul of type [1, 1] that is reshaped back to a scalar.
C4_DotOperandsNormalized ==
    LastIs("xla_hlo.dot") =>
        /\ last.applied
        /\ \E i \in 1..Len(last.newOps) : last.newOps[i].kind = "tf.MatMul"
        /\ ExpectedOperand(last.op.operands[1], MatMulOfLast.operands[1])
        /\ ExpectedOperand(last.op.operands[2], MatMulOfLast.operands[2])
        /\ MatMulOfLast.attrs.transpose_b = (Len(last.op.operands[2].shape) = 1)
        /\ MatMulOfLast.attrs.transpose_a = FALSE
        /\ (Len(last.op.operands[1].shape) = 1 /\ Len(last.op.operands[2].shape) = 1) =>
              /\ Len(last.newOps) = 4
              /\ MatMulOfLast.shape = <<1, 1>>
              /\ last.newOps[4].kind = "xla_hlo.reshape"
              /\ last.newOps[4].operands = <<ResultOf(MatMulOfLast)>>
              /\ last.newOps[4].shape = <<>>
              /\ last.repl = ResultOf(last.newOps[4])

C4_Witness ==
    /\ LastIs("xla_hlo.dot")
    /\ last.applied
    /\ last.op.operands[1].shape = <<2>>
    /\ last.op.operands[2].shape = <<2>>
    /\ MatMulOfLast.attrs.transpose_b

\* C5 as stated: a dot whose operands both have rank >= 2 is rewritten to one
\* new operation, a tf.MatMul with transpose_b = false, and no reshape.
C5_SingleMatMulNoReshape ==
    (LastIs("xla_hlo.dot") /\ Len(last.op.operands[1].shape) >= 2
                           /\ Len(last.op.operands[2].shape) >= 2) =>
        /\ Len(last.newOps) = 1
        /\ last.newOps[1].kind = "tf.MatMul"
        /\ ~last.newOps[1].attrs.transpose_b
        /\ \A i \in 1..Len(last.newOps) : last.newOps[i].kind # "xla_hlo.reshape"

\* C6: the Value a slice or dot rewrite declares as the replacement has the type
\* (shape and element kind) of the result it replaces.
C6_ReplacementKeepsType ==
    ((LastIs("xla_hlo.dot") \/ LastIs("xla_hlo.slice")) /\ last.applied) =>
        /\ last.repl.def = "op"
        /\ last.repl.shape = last.op.shape
        /\ last.repl.elem = last.op.elem
        /\ \E i \in 1..Len(last.newOps) : ResultOf(last.newOps[i]) = last.repl

C6_Witness ==
    /\ LastIs("xla_hlo.dot")
    /\ last.applied
    /\ last.op.operands[1].shape = <<2, 2>>
    /\ last.op.operands[2].shape = <<2>>
    /\ last.repl.shape = <<2>>

\* Every operand of every operation of body is an entry argument or the result,
\* with its type, of an operation placed earlier in body.
DefBeforeUse(body) ==
    \A i \in 1..Len(body) : \A k \in 1..Len(body[i].operands) :
        LET v == body[i].operands[k]
        IN \/ v.def = "arg"
           \/ v.def = "op" /\ \E j \in 1..(i - 1) : ResultOf(body[j]) = v

\* C7: the operations a rewrite creates use only values defined before them, and
\* once the replacements are applied and the replaced operations erased no
\* operand refers to an erased operation or to a later one.
C7_NoDanglingOperand ==
    /\ DefBeforeUse(ops)
    /\ pc \in {"report", "done"} =>
          \A i \in 1..Len(ops) : \A k \in 1..Len(ops[i].operands) :
              ~IsReplaced(ops[i].operands[k].id) \/ ops[i].operands[k].def = "arg"

C7_Witness ==
    /\ pc = "report"
    /\ Cardinality(replaced) >= 3
    /\ \E c \in created : ops[Len(ops)].operands[1].id = c.id
    /\ \E i \in 1..Len(ops) : ops[i].kind = "tf.Slice"
    /\ \E i \in 1..Len(ops) : ops[i].kind = "tf.MatMul"

SourceDialectOps(body) == {i \in 1..Len(body) : Dialect(body[i].kind) = "xla_hlo"}

AlreadyLegal(body) ==
    \A i \in 1..Len(body) :
        \/ Terminator(body[i])
        \/ Dialect(body[i].kind) = "tf"
        \/ body[i].kind \in {"std.call", "std.constant"}

Range(s) == {s[i] : i \in 1..Len(s)}

\* Every operation a pattern created has been legalized or is on the worklist;
\* when the worklist is empty each of them was examined, and each illegal one was
\* converted by a further pattern unless the conversion failed.
CreatedOpsAccountedFor ==
    /\ \A c \in created : c.id \in examined \/ c.id \in Range(worklist)
    /\ worklist = <<>> =>
          \A c \in created :
              /\ c.id \in examined
              /\ ~IsLegal(c.kind) => (IsReplaced(c.id) \/ failed)

\* The steps one run can take: the legalization of a dot creates at most 4
\* operations, 3 of them reshapes that each create 2 more, so an operation of the
\* function accounts for at most 11 legalize steps; the commit and the report
\* add 2.
StepBound(body) == 11 * Len(body) + 2

\* C9: every operation a rule creates is enqueued and classified before the
\* conversion finishes, the illegal ones (the xla_hlo.reshape of the dot
\* rewrite) are converted by a further rule or fail the conversion, and every
\* run of the pass terminates: it is never stuck before it is done and takes a
\* bounded number of steps.
\* A run that is not done can take its next step: the operation at the head of
\* the worklist is in the function and one of the legalize steps handles it.
CanStep ==
    \/ pc = "idle" /\ runs < MaxRuns
    \/ pc = "report"
    \/ pc = "convert" /\ worklist = <<>>
    \/ /\ pc = "convert" /\ worklist # <<>>
       /\ \E i \in 1..Len(ops) :
             /\ ops[i].id = Head(worklist)
             /\ \/ IsLegal(ops[i].kind) \/ IsReplaced(ops[i].id)
                \/ ~HasPattern(ops[i].kind)
                \/ ops[i].kind \in {"xla_hlo.slice", "xla_hlo.dot", "xla_hlo.reshape"}

MatMulResultShape(a, b, transpose_a, transpose_b) ==
    <<IF transpose_a THEN a[2] ELSE a[1], IF transpose_b THEN b[1] ELSE b[2]>>

\* C10 as stated: for operands of rank 1 or 2 the result type declared for the
\* tf.MatMul is the shape the matrix multiply of its operands produces under
\* the emitted transpose flags.
C10_MatMulTypeIsProductShape ==
    (LastIs("xla_hlo.dot") /\ Len(last.op.operands[1].shape) \in {1, 2}
                           /\ Len(last.op.operands[2].shape) \in {1, 2}) =>
        MatMulOfLast.shape =
            MatMulResultShape(MatMulOfLast.operands[1].shape, MatMulOfLast.operands[2].shape,
                              MatMulOfLast.attrs.transpose_a, MatMulOfLast.attrs.transpose_b)

====
